---- MODULE Spec2Model ----
(***************************************************************************)
(* CanvasRenderingContext2D (components/script/dom/                        *)
(* canvasrenderingcontext2d.rs): the script-side handle of a 2D canvas,    *)
(* the commands it sends to its canvas paint task over an mpsc channel,    *)
(* and the blocking pixel reads it performs.                               *)
(*                                                                         *)
(* Representation of numbers.  f64 arguments that the code converts with   *)
(* to_i32()/to_u32() (drawImage, getImageData, putImageData,               *)
(* createImageData) are integers counting HALVES: the f64 value v is       *)
(* written 2*v, so 3 stands for 1.5.  f64 arguments that are only cast     *)
(* with `as f32` (transforms, paths, rectangles of fillRect) are integral  *)
(* and written as themselves.  NaN and the infinities are the sentinels    *)
(* NaN, Inf and NegInf.                                                    *)
(***************************************************************************)
EXTENDS Integers, Sequences, FiniteSets, TLC

VARIABLES
    transform,                \* handle -> Matrix2D<f32>          (field transform)
    fill_color,               \* handle -> RGBA                   (field fill_color)
    stroke_color,             \* handle -> RGBA                   (field stroke_color)
    image_smoothing_enabled,  \* handle -> BOOLEAN
    alive,                    \* handle -> BOOLEAN: not yet dropped
    canvas_size,              \* canvas -> Size2D<i32> of the element the handle is attached to
    chan,                     \* worker -> messages sent and not yet received
    sent,                     \* worker -> every message ever put on its channel, in order
    consumed,                 \* worker -> every message the paint task has received, in order
    workerUp,                 \* worker -> BOOLEAN: the Receiver end still exists
    reply,                    \* set of <<route, bytes>>: answers waiting on reply channels
    nextRoute,                \* number of reply channels created so far
    pc,                       \* position of the script thread
    call,                     \* the call the script thread is blocked in
    last,                     \* outcome of the most recent operation
    nops                      \* number of operations and failures so far

vars == <<nops, pc, nextRoute, workerUp, alive, chan, sent, consumed, reply,
          transform, fill_color, stroke_color, image_smoothing_enabled,
          canvas_size, call, last>>

style == <<transform, fill_color, stroke_color, image_smoothing_enabled>>
wire  == <<chan, sent, consumed, workerUp, reply, nextRoute>>

----------------------------------------------------------------------------
(* Bounds of the model *)

MaxOps == 2

\* One handle per canvas element; canvas c is the element of handle c.
Handles == {1, 2}

\* The handle whose every operation is exercised; the others are the other
\* surfaces of the page (OtherOp).
Studied == {1}

Sizes == {<<0, 4>>, <<40, 40>>}
InitialSize == <<4, 4>>

----------------------------------------------------------------------------
(* Option<T>, Rect<i32>, numeric conversions *)

None == <<>>
Some(v) == <<v>>
unwrap(o) == o[1]
unwrap_or(o, d) == IF o = None THEN d ELSE o[1]

NaN == 1000001
Inf == 1000002
NegInf == 1000003
is_nan(x) == x = NaN
is_infinite(x) == x = Inf \/ x = NegInf

Abs(x) == IF x < 0 THEN -x ELSE x
Min(a, b) == IF a < b THEN a ELSE b
Max(a, b) == IF a < b THEN b ELSE a

\* Integer division rounding toward zero, as a float-to-int cast rounds.
TruncDiv(n, d) == IF (n >= 0) = (d > 0) THEN Abs(n) \div Abs(d) ELSE -(Abs(n) \div Abs(d))

\* f64 (in halves) -> i32 and u32
to_i32(x) == TruncDiv(x, 2)
to_u32(x) == TruncDiv(x, 2)
\* i32 -> f64 (in halves)
to_f64(n) == 2 * n

Rect(x, y, w, h) == [x |-> x, y |-> y, w |-> w, h |-> h]
RectZero == Rect(0, 0, 0, 0)

\* geom::rect::Rect::intersects
intersects(a, b) ==
    /\ a.x < b.x + b.w
    /\ b.x < a.x + a.w
    /\ a.y < b.y + b.h
    /\ b.y < a.y + a.h

\* geom::rect::Rect::intersection, with unwrap_or(Rect::zero())
intersection_or_zero(a, b) ==
    IF ~intersects(a, b) THEN RectZero
    ELSE LET ulx == Max(a.x, b.x)
             uly == Max(a.y, b.y)
             lrx == Min(a.x + a.w, b.x + b.w)
             lry == Min(a.y + a.h, b.y + b.h)
         IN  Rect(ulx, uly, lrx - ulx, lry - uly)

is_rect_valid_or_empty(rect) ==
    rect.x >= 0 /\ rect.y >= 0 /\ rect.w >= 0 /\ rect.h >= 0

is_rect_valid(rect) ==
    rect.x >= 0 /\ rect.y >= 0 /\ rect.w > 0 /\ rect.h > 0

\* HTMLCanvasElement::is_valid
is_valid_checks_height_only(size) == size[2] # 0
is_valid(size) == size[1] # 0 /\ size[2] # 0

----------------------------------------------------------------------------
(* Matrix2D<f32>: <<m11, m12, m21, m22, m31, m32>> *)

Matrix2D(a, b, c, d, e, f) == <<a, b, c, d, e, f>>
identity == Matrix2D(1, 0, 0, 1, 0, 0)

\* self.mul(&m)
mul(self, m) ==
    Matrix2D(m[1] * self[1] + m[2] * self[3],
             m[1] * self[2] + m[2] * self[4],
             m[3] * self[1] + m[4] * self[3],
             m[3] * self[2] + m[4] * self[4],
             m[5] * self[1] + m[6] * self[3] + self[5],
             m[5] * self[2] + m[6] * self[4] + self[6])

\* self.translate(x, y)
translate(self, x, y) == mul(self, Matrix2D(1, 0, 0, 1, x, y))

\* self.scale(x, y)
scale(self, x, y) ==
    Matrix2D(self[1] * x, self[2], self[3], self[4] * y, self[5], self[6])

----------------------------------------------------------------------------
(* Arguments the operations are called with *)

ScaleArgs == {<<2, 3>>}
TranslateArgs == {<<1, 2>>}
MatrixArgs == {Matrix2D(2, 1, 0, 1, 3, 0)}
\* setTransform is called with a matrix no other call produces from the identity
SetMatrixArgs == {Matrix2D(1, 0, 1, 2, 0, 5)}

----------------------------------------------------------------------------
(* CanvasMsg and the channel *)

Msg(kind, arg) == [kind |-> kind, arg |-> arg]

\* RGBA as <<red, green, blue, alpha>>
RGBA(r, g, b, a) == <<r, g, b, a>>
black == RGBA(0, 0, 0, 1)

\* An operation as called: its name, its arguments, and, once drawImage has
\* computed them, its local variables <<source_rect, dest_rect>>.
Op(name, args) == [name |-> name, args |-> args, rects |-> <<>>]

NoCall == [op |-> Op("none", <<>>), h |-> 0, w |-> 0, route |-> 0, a |-> <<>>]

\* What an operation gave back: Ok, a validation error, or a panic of the
\* script task; "pending" while the caller is blocked in recv().
Outcome(op, h, res, val) == [op |-> op, h |-> h, res |-> res, val |-> val]

Init ==
    /\ transform = [h \in Handles |-> identity]
    /\ fill_color = [h \in Handles |-> black]
    /\ stroke_color = [h \in Handles |-> black]
    /\ image_smoothing_enabled = [h \in Handles |-> TRUE]
    /\ alive = [h \in Handles |-> TRUE]
    /\ canvas_size = [h \in Handles |-> InitialSize]
    /\ chan = [h \in Handles |-> <<>>]
    /\ sent = [h \in Handles |-> <<>>]
    /\ consumed = [h \in Handles |-> <<>>]
    /\ workerUp = [h \in Handles |-> TRUE]
    /\ reply = {}
    /\ nextRoute = 0
    /\ pc = "idle"
    /\ call = NoCall
    /\ last = Outcome(Op("new", <<>>), 0, "Ok", <<>>)
    /\ nops = 0

\* The script thread can start an operation on handle h.
Ready(h) == pc = "idle" /\ alive[h] /\ nops < MaxOps

\* The script thread starts an operation on handle h, which stays alive.
Start(h) == Ready(h) /\ nops' = nops + 1 /\ UNCHANGED alive

\* Sender::send(msg): the queue of the channel after a send that succeeded.
enqueue_front(q, msg) == <<msg>> \o q
enqueue_reads_first(q, msg) ==
    IF msg.kind = "GetImageData" THEN <<msg>> \o q ELSE Append(q, msg)
enqueue(q, msg) == Append(q, msg)

\* Result<(), SendError>::unwrap() of a send: Ok while the Receiver exists,
\* a panic of the script task once it is gone.
send_unwrap_ignores_error(receiver_exists) == "Ok"

send_unwrap(receiver_exists) == IF receiver_exists THEN "Ok" ELSE "panic"

\* The channel variables after  w_sender.send(msg): the message is queued, and
\* recorded as the latest message sent, unless the Receiver is gone.
Sent(w, msg) ==
    /\ chan' = [chan EXCEPT ![w] = IF workerUp[w] THEN enqueue(@, msg) ELSE @]
    /\ sent' = [sent EXCEPT ![w] = IF workerUp[w] THEN Append(@, msg) ELSE @]

\* self.renderer.send(msg).unwrap() as the last statement of operation op.
SendUnwrap(h, op, msg) ==
    LET r == send_unwrap(workerUp[h]) IN
    /\ Sent(h, msg)
    /\ pc' = IF r = "Ok" THEN "idle" ELSE "panicked"
    /\ last' = Outcome(op, h, r, <<>>)
    /\ UNCHANGED <<consumed, workerUp, reply, nextRoute, call>>

\* An operation that sends nothing and returns res with value val.
Return(h, op, res, val) ==
    /\ last' = Outcome(op, h, res, val)
    /\ UNCHANGED <<wire, pc, call>>

----------------------------------------------------------------------------
(* Operations of the handle *)

\* The canvas element is resized and calls recreate(size).
Recreate(h, size) ==
    /\ Start(h)
    /\ canvas_size' = [canvas_size EXCEPT ![h] = size]
    /\ SendUnwrap(h, Op("recreate", <<size>>), Msg("Recreate", <<size>>))
    /\ UNCHANGED style

\* update_transform, after the operation op has set the transform to m
update_transform_sends_previous(h, op, m) ==
    /\ transform' = [transform EXCEPT ![h] = m]
    /\ SendUnwrap(h, op, Msg("SetTransform", <<transform[h]>>))
    /\ UNCHANGED <<fill_color, stroke_color, image_smoothing_enabled, canvas_size>>

update_transform(h, op, m) ==
    /\ transform' = [transform EXCEPT ![h] = m]
    /\ SendUnwrap(h, op, Msg("SetTransform", <<transform'[h]>>))
    /\ UNCHANGED <<fill_color, stroke_color, image_smoothing_enabled, canvas_size>>

Scale_replaces(h, x, y) ==
    /\ Start(h)
    /\ update_transform(h, Op("scale", <<x, y>>), scale(identity, x, y))

Scale(h, x, y) ==
    /\ Start(h)
    /\ update_transform(h, Op("scale", <<x, y>>), scale(transform[h], x, y))

Translate(h, x, y) ==
    /\ Start(h)
    /\ update_transform(h, Op("translate", <<x, y>>), translate(transform[h], x, y))

Transform(h, m) ==
    /\ Start(h)
    /\ update_transform(h, Op("transform", <<m>>), mul(transform[h], m))

SetTransform_multiplies(h, m) ==
    /\ Start(h)
    /\ update_transform(h, Op("setTransform", <<m>>), mul(transform[h], m))

SetTransform(h, m) ==
    /\ Start(h)
    /\ update_transform(h, Op("setTransform", <<m>>), m)

\* An operation that only encodes its arguments into one command.
\* An operation that sends its command and sets the fill colour back.
CommandOnly_resets_fill_color(h, op, msg) ==
    /\ SendUnwrap(h, op, msg)
    /\ fill_color' = [fill_color EXCEPT ![h] = black]
    /\ UNCHANGED <<transform, stroke_color, image_smoothing_enabled, canvas_size>>

CommandOnly(h, op, msg) ==
    /\ SendUnwrap(h, op, msg)
    /\ UNCHANGED <<style, canvas_size>>

FillRect(h, x, y, width, height) ==
    /\ Start(h)
    /\ CommandOnly(h, Op("fillRect", <<x, y, width, height>>),
                   Msg("FillRect", <<Rect(x, y, width, height)>>))

ClearRect(h, x, y, width, height) ==
    /\ Start(h)
    /\ CommandOnly(h, Op("clearRect", <<x, y, width, height>>),
                   Msg("ClearRect", <<Rect(x, y, width, height)>>))

StrokeRect(h, x, y, width, height) ==
    /\ Start(h)
    /\ CommandOnly(h, Op("strokeRect", <<x, y, width, height>>),
                   Msg("StrokeRect", <<Rect(x, y, width, height)>>))

BeginPath(h) ==
    /\ Start(h)
    /\ CommandOnly(h, Op("beginPath", <<>>), Msg("BeginPath", <<>>))

ClosePath(h) ==
    /\ Start(h)
    /\ CommandOnly(h, Op("closePath", <<>>), Msg("ClosePath", <<>>))

Fill(h) ==
    /\ Start(h)
    /\ CommandOnly(h, Op("fill", <<>>), Msg("Fill", <<>>))

MoveTo(h, x, y) ==
    /\ Start(h)
    /\ CommandOnly(h, Op("moveTo", <<x, y>>), Msg("MoveTo", <<x, y>>))

LineTo(h, x, y) ==
    /\ Start(h)
    /\ CommandOnly(h, Op("lineTo", <<x, y>>), Msg("LineTo", <<x, y>>))

QuadraticCurveTo(h, cpx, cpy, x, y) ==
    /\ Start(h)
    /\ CommandOnly(h, Op("quadraticCurveTo", <<cpx, cpy, x, y>>),
                   Msg("QuadraticCurveTo", <<cpx, cpy, x, y>>))

BezierCurveTo(h, cp1x, cp1y, cp2x, cp2y, x, y) ==
    /\ Start(h)
    /\ CommandOnly(h, Op("bezierCurveTo", <<cp1x, cp1y, cp2x, cp2y, x, y>>),
                Msg("BezierCurveTo", <<cp1x, cp1y, cp2x, cp2y, x, y>>))

Arc(h, x, y, r, start, end, ccw) ==
    /\ Start(h)
    /\ CommandOnly(h, Op("arc", <<x, y, r, start, end, ccw>>),
                   Msg("Arc", <<x, y, r, start, end, ccw>>))

ImageSmoothingEnabled(h) ==
    /\ Start(h)
    /\ Return(h, Op("imageSmoothingEnabled", <<>>), "Ok", <<image_smoothing_enabled[h]>>)
    /\ UNCHANGED <<style, canvas_size>>

SetImageSmoothingEnabled(h, value) ==
    /\ Start(h)
    /\ image_smoothing_enabled' = [image_smoothing_enabled EXCEPT ![h] = value]
    /\ Return(h, Op("setImageSmoothingEnabled", <<value>>), "Ok", <<>>)
    /\ UNCHANGED <<transform, fill_color, stroke_color, canvas_size>>

----------------------------------------------------------------------------
(* drawImage *)

\* A Vec<u8> of pixels: what worker `worker` read from its buffer for `rect`
\* after it had received `at` commands; worker 0 is nobody: len zero bytes.
Bytes(worker, at, rect, len) == [worker |-> worker, at |-> at, rect |-> rect, len |-> len]

\* (dest * (clipped / unclipped)).to_i32(): dest is an f64 in halves, clipped
\* and unclipped are i32 sizes.  With unclipped = 0 the ratio is 0/0 = NaN (or
\* an infinity), and the cast of a non-finite f64 to i32 is undefined: any i32.
scaled_to_i32(dest, clipped, unclipped, undefined_cast) ==
    IF unclipped = 0 THEN undefined_cast
    ELSE TruncDiv(dest * clipped, 2 * unclipped)

\* Returns <<source_rect_clipped, dest_rect>>.  ub = <<i32, i32>>: what the
\* undefined casts of the width and of the height produce, where they occur.
adjust_source_dest_rects(image_size, sx, sy, sw, sh, dx, dy, dw, dh, ub) ==
    LET image_rect == Rect(0, 0, image_size[1], image_size[2])
        image_width == to_f64(image_size[1])
        image_height == to_f64(image_size[2])
        source_x == IF dx # None THEN sx ELSE 0
        source_y == IF dy # None THEN sy ELSE 0
        source_width == IF dw # None THEN unwrap(sw) ELSE image_width
        source_height == IF dh # None THEN unwrap(sh) ELSE image_height
        dest_x == unwrap_or(dx, sx)
        dest_y == unwrap_or(dy, sy)
        dest_width == unwrap_or(dw, unwrap_or(sw, source_width))
        dest_height == unwrap_or(dh, unwrap_or(sh, source_height))
        source_rect == Rect(to_i32(source_x), to_i32(source_y),
                            to_i32(source_width), to_i32(source_height))
        source_rect_clipped == intersection_or_zero(source_rect, image_rect)
        dest_rect == Rect(to_i32(dest_x), to_i32(dest_y),
                          scaled_to_i32(dest_width, source_rect_clipped.w,
                                        source_rect.w, ub[1]),
                          scaled_to_i32(dest_height, source_rect_clipped.h,
                                        source_rect.h, ub[2]))
    IN  <<source_rect_clipped, dest_rect>>

\* self.canvas == canvas.unrooted(): canvas c is the element of handle h
same_canvas_never(h, c) == FALSE
same_canvas(h, c) == h = c

\* The image argument of drawImage: a canvas element, a rendering context (whose
\* Canvas() is the element it is attached to), or any other variant of the union.
CanvasElement(c) == [tag |-> "eHTMLCanvasElement", c |-> c]
Context2D(c) == [tag |-> "eCanvasRenderingContext2D", c |-> c]
ImageElement == [tag |-> "eHTMLImageElement", c |-> 0]

\* A blocking read: a fresh reply channel, GetImageData sent to worker w with
\* unwrap(), and the script thread left in recv() at position at.
BlockingRead_without_send(h, op, w, rect, at, a) ==
    /\ nextRoute' = nextRoute + 1
    /\ pc' = at
    /\ call' = [op |-> op, h |-> h, w |-> w, route |-> nextRoute + 1, a |-> a]
    /\ last' = Outcome(op, h, "pending", <<>>)
    /\ UNCHANGED <<chan, sent, consumed, workerUp, reply>>

BlockingRead_shared_route(h, op, w, rect, at, a) ==
    LET r == send_unwrap(workerUp[w])
        route == 1
    IN  /\ nextRoute' = nextRoute + 1
        /\ Sent(w, Msg("GetImageData", <<rect, canvas_size[w], route>>))
        /\ pc' = IF r = "Ok" THEN at ELSE "panicked"
        /\ call' = IF r = "Ok"
                   THEN [op |-> op, h |-> h, w |-> w, route |-> route, a |-> a]
                   ELSE NoCall
        /\ last' = Outcome(op, h, IF r = "Ok" THEN "pending" ELSE r, <<>>)
        /\ UNCHANGED <<consumed, workerUp, reply>>

BlockingRead(h, op, w, rect, at, a) ==
    LET r == send_unwrap(workerUp[w])
        route == nextRoute + 1
    IN  /\ nextRoute' = route
        /\ Sent(w, Msg("GetImageData", <<rect, canvas_size[w], route>>))
        /\ pc' = IF r = "Ok" THEN at ELSE "panicked"
        /\ call' = IF r = "Ok"
                   THEN [op |-> op, h |-> h, w |-> w, route |-> route, a |-> a]
                   ELSE NoCall
        /\ last' = Outcome(op, h, IF r = "Ok" THEN "pending" ELSE r, <<>>)
        /\ UNCHANGED <<consumed, workerUp, reply>>

\* canvas.get_2d_context().root().r().get_renderer(): a clone of the Sender
\* of the context of canvas c, that is, the channel of worker c.
get_renderer_of_other_context(c) == IF c = 1 THEN 2 ELSE 1
get_renderer(c) == c

draw_html_canvas_element(h, op, c, sx, sy, sw, sh, dx, dy, dw, dh, ub) ==
    IF ~is_valid(canvas_size[c])
    THEN Return(h, op, "Ok", <<>>)
    ELSE LET rects == adjust_source_dest_rects(canvas_size[c], sx, sy, sw, sh,
                                               dx, dy, dw, dh, ub)
             source_rect == rects[1]
             dest_rect == rects[2]
             smoothing_enabled == image_smoothing_enabled[h]
             op2 == [op EXCEPT !.rects = rects]
         IN  IF ~is_rect_valid(source_rect) \/ ~is_rect_valid(dest_rect)
             THEN Return(h, op2, "IndexSize", <<>>)
             ELSE IF same_canvas(h, c)
             THEN SendUnwrap(h, op2, Msg("DrawImageSelf",
                      <<canvas_size[c], dest_rect, source_rect, smoothing_enabled>>))
             ELSE BlockingRead(h, op2, get_renderer(c), source_rect, "recv_draw",
                      <<canvas_size[c], dest_rect, source_rect, smoothing_enabled>>)

\* Without an explicit source rectangle the unclipped source size is the size
\* of a usable canvas, which is not zero: no cast is undefined.
NoUndefinedCast == <<0, 0>>

\* The image argument designates a canvas whose element and context exist.
Usable(image) == IF image.tag = "eHTMLImageElement" THEN TRUE ELSE alive[image.c]

\* drawImage(image, dx, dy) handing (dx, dy) over as the destination origin as
\* well, which makes it the origin of the source rectangle.
DrawImage_source_at_dest(h, image, dx, dy) ==
    /\ Start(h)
    /\ Usable(image)
    /\ IF image.tag \in {"eHTMLCanvasElement", "eCanvasRenderingContext2D"}
       THEN draw_html_canvas_element(h, Op("drawImage", <<image, dx, dy>>), image.c,
                                     dx, dy, None, None,
                                     Some(dx), Some(dy), None, None, NoUndefinedCast)
       ELSE Return(h, Op("drawImage", <<image, dx, dy>>), "TypeError", <<>>)
    /\ UNCHANGED <<style, canvas_size>>

DrawImage(h, image, dx, dy) ==
    /\ Start(h)
    /\ Usable(image)
    /\ IF image.tag \in {"eHTMLCanvasElement", "eCanvasRenderingContext2D"}
       THEN draw_html_canvas_element(h, Op("drawImage", <<image, dx, dy>>), image.c,
                                     dx, dy, None, None,
                                     None, None, None, None, NoUndefinedCast)
       ELSE Return(h, Op("drawImage", <<image, dx, dy>>), "TypeError", <<>>)
    /\ UNCHANGED <<style, canvas_size>>

DrawImage_(h, image, dx, dy, dw, dh) ==
    /\ Start(h)
    /\ Usable(image)
    /\ IF image.tag = "eHTMLCanvasElement"
       THEN draw_html_canvas_element(h, Op("drawImage_", <<image, dx, dy, dw, dh>>), image.c,
                                     dx, dy, Some(dw), Some(dh),
                                     None, None, None, None, NoUndefinedCast)
       ELSE IF image.tag = "eCanvasRenderingContext2D"
       THEN draw_html_canvas_element(h, Op("drawImage_", <<image, dx, dy, dw, dh>>), image.c,
                                     dx, dy, None, None,
                                     None, None, None, None, NoUndefinedCast)
       ELSE Return(h, Op("drawImage_", <<image, dx, dy, dw, dh>>), "TypeError", <<>>)
    /\ UNCHANGED <<style, canvas_size>>

DrawImage__(h, image, sx, sy, sw, sh, dx, dy, dw, dh, ub) ==
    /\ Start(h)
    /\ Usable(image)
    /\ IF image.tag \in {"eHTMLCanvasElement", "eCanvasRenderingContext2D"}
       THEN draw_html_canvas_element(h, Op("drawImage__",
                                           <<image, sx, sy, sw, sh, dx, dy, dw, dh>>),
                                     image.c, sx, sy, Some(sw), Some(sh),
                                     Some(dx), Some(dy), Some(dw), Some(dh), ub)
       ELSE Return(h, Op("drawImage__", <<image, sx, sy, sw, sh, dx, dy, dw, dh>>),
                   "TypeError", <<>>)
    /\ UNCHANGED <<style, canvas_size>>

\* receiver.recv().unwrap() of draw_html_canvas_element gets the reply, and the
\* operation goes on to self.renderer.send(DrawImage(..)).unwrap().
RecvDrawImage_without_reply ==
    /\ pc = "recv_draw"
    /\ LET res == send_unwrap(workerUp[call.h])
           msg == Msg("DrawImage", <<Bytes(0, 0, call.a[3], 0)>> \o call.a)
       IN  /\ Sent(call.h, msg)
           /\ pc' = IF res = "Ok" THEN "idle" ELSE "panicked"
           /\ last' = Outcome(call.op, call.h, res, <<>>)
    /\ call' = NoCall
    /\ UNCHANGED <<style, canvas_size, alive, consumed, workerUp, nextRoute, nops, reply>>

RecvDrawImage ==
    /\ pc = "recv_draw"
    /\ \E r \in reply :
         /\ r[1] = call.route
         /\ LET imagedata == r[2]
                res == send_unwrap(workerUp[call.h])
                msg == Msg("DrawImage", <<imagedata>> \o call.a)
            IN  /\ reply' = reply \ {r}
                /\ Sent(call.h, msg)
                /\ pc' = IF res = "Ok" THEN "idle" ELSE "panicked"
                /\ last' = Outcome(call.op, call.h, res, <<>>)
    /\ call' = NoCall
    /\ UNCHANGED <<style, canvas_size, alive, consumed, workerUp, nextRoute, nops>>

----------------------------------------------------------------------------
(* Styles *)

\* parse_color: Some(rgba) when cssparser yields Color::RGBA, None when the
\* string is no colour or is the keyword currentColor.
parse_color_or_black(string) ==
    IF string = "red" THEN Some(RGBA(1, 0, 0, 1))
    ELSE IF string = "#00f" THEN Some(RGBA(0, 0, 1, 1))
    ELSE Some(black)

parse_color(string) ==
    IF string = "red" THEN Some(RGBA(1, 0, 0, 1))
    ELSE IF string = "#00f" THEN Some(RGBA(0, 0, 1, 1))
    ELSE None

\* RGBA::to_css
to_css(rgba) ==
    IF rgba = black THEN "rgb(0, 0, 0)"
    ELSE IF rgba = RGBA(1, 0, 0, 1) THEN "rgb(255, 0, 0)"
    ELSE IF rgba = RGBA(0, 0, 1, 1) THEN "rgb(0, 0, 255)"
    ELSE "rgba"

\* StringOrCanvasGradientOrCanvasPattern
eString(string) == [tag |-> "eString", payload |-> string]
eCanvasGradient(gradient) == [tag |-> "eCanvasGradient", payload |-> gradient]
eCanvasPattern == [tag |-> "eCanvasPattern", payload |-> 0]

\* FillOrStrokeStyle
Color(rgba) == [tag |-> "Color", payload |-> rgba]

\* CanvasGradient::to_fill_or_stroke_style
to_fill_or_stroke_style(gradient) == [tag |-> gradient.tag, payload |-> gradient]

\* CanvasGradientStyle::Linear / Radial with the stops added so far
LinearGradientStyle(x0, y0, x1, y1, stops) ==
    [tag |-> "LinearGradient", a |-> <<x0, y0, x1, y1>>, stops |-> stops]
RadialGradientStyle(x0, y0, r0, x1, y1, r1, stops) ==
    [tag |-> "RadialGradient", a |-> <<x0, y0, r0, x1, y1, r1>>, stops |-> stops]

StrokeStyle_reads_fill_color(h) ==
    /\ Start(h)
    /\ Return(h, Op("strokeStyle", <<>>), "Ok", <<to_css(fill_color[h])>>)
    /\ UNCHANGED <<style, canvas_size>>

StrokeStyle(h) ==
    /\ Start(h)
    /\ Return(h, Op("strokeStyle", <<>>), "Ok", <<to_css(stroke_color[h])>>)
    /\ UNCHANGED <<style, canvas_size>>

SetStrokeStyle(h, value) ==
    /\ Start(h)
    /\ IF value.tag = "eString" /\ parse_color(value.payload) # None
       THEN LET rgba == unwrap(parse_color(value.payload)) IN
            /\ stroke_color' = [stroke_color EXCEPT ![h] = rgba]
            /\ SendUnwrap(h, Op("setStrokeStyle", <<value>>),
                          Msg("SetStrokeStyle", <<Color(rgba)>>))
       ELSE /\ Return(h, Op("setStrokeStyle", <<value>>), "Ok", <<>>)
            /\ UNCHANGED stroke_color
    /\ UNCHANGED <<transform, fill_color, image_smoothing_enabled, canvas_size>>

FillStyle(h) ==
    /\ Start(h)
    /\ Return(h, Op("fillStyle", <<>>), "Ok", <<to_css(stroke_color[h])>>)
    /\ UNCHANGED <<style, canvas_size>>

SetFillStyle(h, value) ==
    /\ Start(h)
    /\ IF value.tag = "eString" /\ parse_color(value.payload) # None
       THEN LET rgba == unwrap(parse_color(value.payload)) IN
            /\ fill_color' = [fill_color EXCEPT ![h] = rgba]
            /\ SendUnwrap(h, Op("setFillStyle", <<value>>), Msg("SetFillStyle", <<Color(rgba)>>))
       ELSE IF value.tag = "eCanvasGradient"
       THEN /\ SendUnwrap(h, Op("setFillStyle", <<value>>),
                          Msg("SetFillStyle", <<to_fill_or_stroke_style(value.payload)>>))
            /\ UNCHANGED fill_color
       ELSE /\ Return(h, Op("setFillStyle", <<value>>), "Ok", <<>>)
            /\ UNCHANGED fill_color
    /\ UNCHANGED <<transform, stroke_color, image_smoothing_enabled, canvas_size>>

CreateLinearGradient(h, x0, y0, x1, y1) ==
    /\ Start(h)
    /\ IF \E x \in {x0, y0, x1, y1} : is_nan(x) \/ is_infinite(x)
       THEN Return(h, Op("createLinearGradient", <<x0, y0, x1, y1>>), "TypeError", <<>>)
       ELSE Return(h, Op("createLinearGradient", <<x0, y0, x1, y1>>), "Ok",
                   <<LinearGradientStyle(x0, y0, x1, y1, <<>>)>>)
    /\ UNCHANGED <<style, canvas_size>>

\* createRadialGradient refusing NaN alone.
CreateRadialGradient_checks_nan_only(h, x0, y0, r0, x1, y1, r1) ==
    /\ Start(h)
    /\ IF \E x \in {x0, y0, r0, x1, y1, r1} : is_nan(x)
       THEN Return(h, Op("createRadialGradient", <<x0, y0, r0, x1, y1, r1>>), "TypeError", <<>>)
       ELSE Return(h, Op("createRadialGradient", <<x0, y0, r0, x1, y1, r1>>), "Ok",
                   <<RadialGradientStyle(x0, y0, r0, x1, y1, r1, <<>>)>>)
    /\ UNCHANGED <<style, canvas_size>>

CreateRadialGradient(h, x0, y0, r0, x1, y1, r1) ==
    /\ Start(h)
    /\ IF \E x \in {x0, y0, r0, x1, y1, r1} : is_nan(x) \/ is_infinite(x)
       THEN Return(h, Op("createRadialGradient", <<x0, y0, r0, x1, y1, r1>>), "TypeError", <<>>)
       ELSE Return(h, Op("createRadialGradient", <<x0, y0, r0, x1, y1, r1>>), "Ok",
                   <<RadialGradientStyle(x0, y0, r0, x1, y1, r1, <<>>)>>)
    /\ UNCHANGED <<style, canvas_size>>

----------------------------------------------------------------------------
(* ImageData *)

\* ImageData::new(global, width, height, data): zero-filled when data is None
ImageData(width, height, data) ==
    [width |-> width, height |-> height,
     data |-> IF data = None
              THEN Bytes(0, 0, Rect(0, 0, width, height), width * height * 4)
              ELSE unwrap(data)]

\* createImageData(sw, sh) looking at the width alone.
CreateImageData_checks_width_only(h, sw, sh) ==
    /\ Start(h)
    /\ IF sw = 0
       THEN Return(h, Op("createImageData", <<sw, sh>>), "IndexSize", <<>>)
       ELSE Return(h, Op("createImageData", <<sw, sh>>), "Ok",
                   <<ImageData(to_u32(Abs(sw)), to_u32(Abs(sh)), None)>>)
    /\ UNCHANGED <<style, canvas_size>>

CreateImageData(h, sw, sh) ==
    /\ Start(h)
    /\ IF sw = 0 \/ sh = 0
       THEN Return(h, Op("createImageData", <<sw, sh>>), "IndexSize", <<>>)
       ELSE Return(h, Op("createImageData", <<sw, sh>>), "Ok",
                   <<ImageData(to_u32(Abs(sw)), to_u32(Abs(sh)), None)>>)
    /\ UNCHANGED <<style, canvas_size>>

CreateImageData_(h, imagedata) ==
    /\ Start(h)
    /\ Return(h, Op("createImageData_", <<imagedata>>), "Ok",
              <<ImageData(imagedata.width, imagedata.height, None)>>)
    /\ UNCHANGED <<style, canvas_size>>

GetImageData_validates_after_send(h, sx, sy, sw, sh) ==
    LET dest_rect == Rect(to_i32(sx), to_i32(sy), to_i32(sw), to_i32(sh))
        op == Op("getImageData", <<sx, sy, sw, sh>>)
    IN  /\ Start(h)
        /\ IF sw = 0 \/ sh = 0
           THEN /\ Sent(h, Msg("GetImageData", <<dest_rect, canvas_size[h], nextRoute + 1>>))
                /\ nextRoute' = nextRoute + 1
                /\ last' = Outcome(op, h, "IndexSize", <<>>)
                /\ UNCHANGED <<consumed, workerUp, reply, pc, call>>
           ELSE BlockingRead(h, op, h, dest_rect, "recv_get", <<sw, sh>>)
        /\ UNCHANGED <<style, canvas_size>>

\* getImageData reading the rectangle of the size (|sw|, |sh|).
GetImageData_reads_abs_rect(h, sx, sy, sw, sh) ==
    /\ Start(h)
    /\ IF sw = 0 \/ sh = 0
       THEN Return(h, Op("getImageData", <<sx, sy, sw, sh>>), "IndexSize", <<>>)
       ELSE LET dest_rect == Rect(to_i32(sx), to_i32(sy),
                                  to_i32(Abs(sw)), to_i32(Abs(sh))) IN
            BlockingRead(h, Op("getImageData", <<sx, sy, sw, sh>>), h, dest_rect,
                         "recv_get", <<sw, sh>>)
    /\ UNCHANGED <<style, canvas_size>>

GetImageData(h, sx, sy, sw, sh) ==
    /\ Start(h)
    /\ IF sw = 0 \/ sh = 0
       THEN Return(h, Op("getImageData", <<sx, sy, sw, sh>>), "IndexSize", <<>>)
       ELSE LET dest_rect == Rect(to_i32(sx), to_i32(sy), to_i32(sw), to_i32(sh)) IN
            BlockingRead(h, Op("getImageData", <<sx, sy, sw, sh>>), h, dest_rect,
                         "recv_get", <<sw, sh>>)
    /\ UNCHANGED <<style, canvas_size>>

\* receiver.recv().unwrap() of GetImageData gets the reply.
RecvImageData ==
    /\ pc = "recv_get"
    /\ \E r \in reply :
         /\ r[1] = call.route
         /\ reply' = reply \ {r}
         /\ last' = Outcome(call.op, call.h, "Ok",
                            <<ImageData(to_u32(Abs(call.a[1])), to_u32(Abs(call.a[2])),
                                        Some(r[2]))>>)
    /\ pc' = "idle"
    /\ call' = NoCall
    /\ UNCHANGED <<style, canvas_size, alive, chan, sent, consumed, workerUp,
                   nextRoute, nops>>

\* recv() returns Err when the reply Sender was dropped unanswered, which is
\* when the paint task is gone; unwrap() then panics.
RecvFail ==
    /\ pc \in {"recv_get", "recv_draw"}
    /\ ~workerUp[call.w]
    /\ \A r \in reply : r[1] # call.route
    /\ pc' = "panicked"
    /\ last' = Outcome(call.op, call.h, "panic", <<>>)
    /\ call' = NoCall
    /\ UNCHANGED <<style, canvas_size, alive, wire, nops>>

\* putImageData(imagedata, dx, dy) naming the whole ImageData as dirty.
PutImageData_with_dirty_rect(h, imagedata, dx, dy) ==
    LET data == imagedata.data
        image_data_rect == Rect(to_i32(dx), to_i32(dy), imagedata.width, imagedata.height)
        dirty_rect == Some(Rect(0, 0, imagedata.width, imagedata.height))
    IN  /\ Start(h)
        /\ CommandOnly(h, Op("putImageData", <<imagedata, dx, dy>>),
                       Msg("PutImageData", <<data, image_data_rect, dirty_rect>>))

PutImageData(h, imagedata, dx, dy) ==
    LET data == imagedata.data
        image_data_rect == Rect(to_i32(dx), to_i32(dy), imagedata.width, imagedata.height)
        dirty_rect == None
    IN  /\ Start(h)
        /\ CommandOnly(h, Op("putImageData", <<imagedata, dx, dy>>),
                       Msg("PutImageData", <<data, image_data_rect, dirty_rect>>))

PutImageData_(h, imagedata, dx, dy, dirtyX, dirtyY, dirtyWidth, dirtyHeight) ==
    LET data == imagedata.data
        image_data_rect == Rect(to_i32(dx), to_i32(dy), imagedata.width, imagedata.height)
        dirty_rect == Some(Rect(to_i32(dirtyX), to_i32(dirtyY),
                                to_i32(dirtyWidth), to_i32(dirtyHeight)))
    IN  /\ Start(h)
        /\ CommandOnly(h, Op("putImageData_", <<imagedata, dx, dy, dirtyX, dirtyY,
                                               dirtyWidth, dirtyHeight>>),
                       Msg("PutImageData", <<data, image_data_rect, dirty_rect>>))

----------------------------------------------------------------------------
(* Teardown *)

\* Drop for CanvasRenderingContext2D: the element and its context are collected.
Drop_without_close(h) ==
    /\ Ready(h)
    /\ nops' = nops + 1
    /\ alive' = [alive EXCEPT ![h] = FALSE]
    /\ Return(h, Op("drop", <<>>), "Ok", <<>>)
    /\ UNCHANGED <<style, canvas_size>>

Drop(h) ==
    /\ Ready(h)
    /\ nops' = nops + 1
    /\ alive' = [alive EXCEPT ![h] = FALSE]
    /\ SendUnwrap(h, Op("drop", <<>>), Msg("Close", <<>>))
    /\ UNCHANGED <<style, canvas_size>>

----------------------------------------------------------------------------
(* The canvas paint task of worker w *)

\* The bytes the paint task answers a GetImageData(rect, canvas_size, route) with.
ReadPixels(w, rect) ==
    Bytes(w, Len(consumed[w]), rect, Abs(rect.w) * Abs(rect.h) * 4)

\* The paint task receives the next message of its channel and handles it:
\* a GetImageData is answered on its route, Close ends the task.
WorkerStep(w) ==
    /\ workerUp[w]
    /\ chan[w] # <<>>
    /\ LET m == Head(chan[w]) IN
       /\ chan' = [chan EXCEPT ![w] = Tail(@)]
       /\ consumed' = [consumed EXCEPT ![w] = Append(@, m)]
       /\ reply' = IF m.kind = "GetImageData"
                   THEN reply \cup {<<m.arg[3], ReadPixels(w, m.arg[1])>>}
                   ELSE reply
       /\ workerUp' = [workerUp EXCEPT ![w] = m.kind # "Close"]
    /\ UNCHANGED <<style, canvas_size, alive, sent, nextRoute, pc, call, last, nops>>

\* The paint task dies: its Receiver, and every message still queued, is dropped.
WorkerCrash(w) ==
    /\ workerUp[w]
    /\ nops < MaxOps
    /\ nops' = nops + 1
    /\ workerUp' = [workerUp EXCEPT ![w] = FALSE]
    /\ UNCHANGED <<style, canvas_size, alive, chan, sent, consumed, reply, nextRoute,
                   pc, call, last>>

----------------------------------------------------------------------------
(* Arguments the operations are called with *)

Images == {CanvasElement(c) : c \in Handles} \cup {Context2D(c) : c \in Handles}
              \cup {ImageElement}

\* f64 in halves: drawImage(image, dx, dy)
DrawArgs2 == {<<3, 2>>, <<-2, 0>>}
\* drawImage(image, dx, dy, dw, dh)
DrawArgs4 == {<<0, 0, 4, 6>>, <<0, 0, 0, 4>>}
\* drawImage(image, sx, sy, sw, sh, dx, dy, dw, dh)
DrawArgs8 == {<<-1, 0, 8, 8, 0, 0, 16, 16>>, <<2, 2, 0, 4, 0, 0, 4, 4>>,
              <<20, 20, 100, 100, 0, 0, 50, 50>>}

\* What a cast of a non-finite f64 to i32 may produce: any i32.
UndefinedCasts == {<<-2147483647 - 1, -2147483647 - 1>>, <<0, 0>>, <<5, 5>>}

\* The casts that can be undefined in drawImage with source size (sw, sh).
UndefinedCastsOf(sw, sh) ==
    IF to_i32(sw) = 0 \/ to_i32(sh) = 0 THEN UndefinedCasts ELSE {NoUndefinedCast}

GetArgs == {<<0, 0, 4, 4>>, <<0, 0, 0, 4>>, <<1, 0, -3, 4>>}
CreateArgs == {<<4, 4>>, <<4, 0>>, <<-3, 4>>}
ImageDatas == {ImageData(2, 2, None)}
\* f64 in halves: putImageData(imagedata, dx, dy)
PutArgs == {<<1, 0>>, <<3, -2>>}
\* putImageData(imagedata, dx, dy, dirtyX, dirtyY, dirtyWidth, dirtyHeight)
DirtyArgs == {<<3, -2, -3, 0, 0, -4>>}
LinearArgs == {<<0, 0, 1, 1>>, <<0, 0, NaN, 1>>, <<Inf, 0, 1, 1>>}
RadialArgs == {<<0, 0, 1, 1, 1, 2>>, <<0, 0, NegInf, 1, 1, 1>>}
ColorStrings == {"red", "currentColor", "not-a-color"}
Gradients == {LinearGradientStyle(0, 0, 1, 1, <<>>)}

----------------------------------------------------------------------------
(* The state machine *)

\* Every operation of the handle.
ScriptOp(h) ==
    \/ \E size \in Sizes : Recreate(h, size)
    \/ \E a \in ScaleArgs : Scale(h, a[1], a[2])
    \/ \E a \in TranslateArgs : Translate(h, a[1], a[2])
    \/ \E m \in MatrixArgs : Transform(h, m)
    \/ \E m \in SetMatrixArgs : SetTransform(h, m)
    \/ FillRect(h, 1, 2, 3, 4)
    \/ ClearRect(h, 1, 2, 3, 4)
    \/ StrokeRect(h, 1, 2, 3, 4)
    \/ BeginPath(h)
    \/ ClosePath(h)
    \/ Fill(h)
    \/ \E image \in Images, a \in DrawArgs2 : DrawImage(h, image, a[1], a[2])
    \/ \E image \in Images, a \in DrawArgs4 : DrawImage_(h, image, a[1], a[2], a[3], a[4])
    \/ \E image \in Images, a \in DrawArgs8 : \E ub \in UndefinedCastsOf(a[3], a[4]) :
          DrawImage__(h, image, a[1], a[2], a[3], a[4], a[5], a[6], a[7], a[8], ub)
    \/ MoveTo(h, 1, 2)
    \/ LineTo(h, 3, 4)
    \/ QuadraticCurveTo(h, 1, 2, 3, 4)
    \/ BezierCurveTo(h, 1, 2, 3, 4, 5, 6)
    \/ Arc(h, 1, 2, 3, 0, 6, FALSE)
    \/ ImageSmoothingEnabled(h)
    \/ \E value \in BOOLEAN : SetImageSmoothingEnabled(h, value)
    \/ StrokeStyle(h)
    \/ \E string \in ColorStrings : SetStrokeStyle(h, eString(string))
    \/ \E g \in Gradients : SetStrokeStyle(h, eCanvasGradient(g))
    \/ SetStrokeStyle(h, eCanvasPattern)
    \/ FillStyle(h)
    \/ \E string \in ColorStrings : SetFillStyle(h, eString(string))
    \/ \E g \in Gradients : SetFillStyle(h, eCanvasGradient(g))
    \/ SetFillStyle(h, eCanvasPattern)
    \/ \E a \in CreateArgs : CreateImageData(h, a[1], a[2])
    \/ \E d \in ImageDatas : CreateImageData_(h, d)
    \/ \E a \in GetArgs : GetImageData(h, a[1], a[2], a[3], a[4])
    \/ \E d \in ImageDatas, a \in PutArgs : PutImageData(h, d, a[1], a[2])
    \/ \E d \in ImageDatas, a \in DirtyArgs :
          PutImageData_(h, d, a[1], a[2], a[3], a[4], a[5], a[6])
    \/ \E a \in LinearArgs : CreateLinearGradient(h, a[1], a[2], a[3], a[4])
    \/ \E a \in RadialArgs : CreateRadialGradient(h, a[1], a[2], a[3], a[4], a[5], a[6])
    \/ Drop(h)

\* The operations the other surfaces perform: enough to be a source of
\* drawImage with commands of its own queued, a caller of both blocking
\* reads, and a surface that is resized and torn down.
OtherOp(h) ==
    \/ \E size \in Sizes : Recreate(h, size)
    \/ FillRect(h, 1, 2, 3, 4)
    \/ \E image \in Images, a \in DrawArgs2 : DrawImage(h, image, a[1], a[2])
    \/ \E a \in GetArgs : GetImageData(h, a[1], a[2], a[3], a[4])
    \/ Drop(h)

Next ==
    \/ \E h \in Studied : ScriptOp(h)
    \/ \E h \in Handles \ Studied : OtherOp(h)
    \/ RecvDrawImage
    \/ RecvImageData
    \/ RecvFail
    \/ \E w \in Handles : WorkerStep(w)
    \/ \E w \in Handles : WorkerCrash(w)

Spec == Init /\ [][Next]_vars

----------------------------------------------------------------------------
(* Properties *)

\* Two messages are the same command.
SameMsg(m1, m2) == m1.kind = m2.kind /\ m1.arg = m2.arg

\* The positions of the messages of kind k in the sequence q.
Positions(q, k) == {i \in 1..Len(q) : q[i].kind = k}

\* C1: at every moment, for every worker, the commands the paint task has
\* received are a prefix of the commands sent on its channel, in send order:
\* none reordered, none skipped; and what is sent and not received is exactly
\* what waits in the channel.
C1_WorkerSeesSendOrder ==
    \A w \in Handles :
        /\ Len(consumed[w]) <= Len(sent[w])
        /\ \A i \in 1..Len(consumed[w]) : SameMsg(consumed[w][i], sent[w][i])
        /\ Len(consumed[w]) + Len(chan[w]) = Len(sent[w])
        /\ \A i \in 1..Len(chan[w]) : SameMsg(chan[w][i], sent[w][Len(consumed[w]) + i])

\* A worker that has received the first of two different commands of its
\* handle while the second still waits.
C1_Witness ==
    /\ Len(sent[1]) = 2
    /\ Len(consumed[1]) = 1
    /\ sent[1][1].kind = "SetTransform"
    /\ sent[1][2].kind = "FillRect"

\* C2: a handle that has been dropped has sent exactly one Close on its
\* channel and that Close is the last message ever sent on it; a handle that
\* is alive has sent none.  (A drop that finds the paint task already gone
\* fails in the send itself: the script task panics and nothing is sent.)
C2_CloseOnceAndLast ==
    \A h \in Handles :
        LET closes == Positions(sent[h], "Close")
            dropFailed == /\ pc = "panicked"
                          /\ last.op.name = "drop"
                          /\ last.h = h
        IN  /\ alive[h] => closes = {}
            /\ (~alive[h] /\ ~dropFailed) => closes = {Len(sent[h])} /\ sent[h] # <<>>
            /\ closes \subseteq {Len(sent[h])}

\* A handle dropped after it had sent a command, with another surface sending
\* afterwards.
C2_Witness ==
    /\ ~alive[1]
    /\ Len(sent[1]) = 2
    /\ sent[1][1].kind = "FillRect"
    /\ sent[1][2].kind = "Close"
    /\ ~workerUp[1]
    /\ Len(consumed[1]) = 2

----------------------------------------------------------------------------
(* Steps of the script thread, as the properties see them *)

\* The step starts an operation (the paint tasks' steps and failures do not).
ScriptStart == nops' = nops + 1 /\ workerUp' = workerUp

\* The number of messages the step puts on the channel of worker w.
NewMsgs(w) == Len(sent'[w]) - Len(sent[w])

\* The latest message on the channel of worker w after the step.
Newest(w) == sent'[w][Len(sent'[w])]

DrawOps == {"drawImage", "drawImage_", "drawImage__"}

\* Validity of a rectangle as the specification words it.
ValidRect(r) == r.x >= 0 /\ r.y >= 0 /\ r.w > 0 /\ r.h > 0

\* The rectangles the drawImage call o resolved are both valid.
ResolvedValid(o) == o.rects # <<>> /\ ValidRect(o.rects[1]) /\ ValidRect(o.rects[2])

\* The worker answered the GetImageData at position i of what it received
\* with these bytes.
AnswerOf(w, i, bytes) ==
    /\ i \in Positions(consumed[w], "GetImageData")
    /\ bytes.worker = w
    /\ bytes.at = i - 1
    /\ bytes.rect = consumed[w][i].arg[1]

\* C3 (state part): every DrawImage on the channel of a handle carries the
\* bytes with which the worker of another surface has answered a GetImageData
\* for the same source rectangle: the answer precedes the DrawImage.
C3_DrawImageAfterAnswer ==
    \A h \in Handles : \A k \in Positions(sent[h], "DrawImage") :
        LET m == sent[h][k] IN
        \E w \in Handles \ {h} : \E i \in 1..Len(consumed[w]) :
            /\ AnswerOf(w, i, m.arg[1])
            /\ consumed[w][i].arg[1] = m.arg[4]
            /\ consumed[w][i].arg[2] = m.arg[2]

\* C3 (step part): a drawImage from another, usable canvas with valid
\* rectangles sends one GetImageData to the worker of the source and blocks;
\* nothing is sent while it is blocked; when the reply arrives it sends one
\* DrawImage, carrying the reply, to its own worker.
C3_ReadThenDraw ==
    /\ (ScriptStart /\ last'.op.name \in DrawOps /\ ResolvedValid(last'.op)
           /\ last'.op.args[1].c # last'.h /\ workerUp[last'.op.args[1].c])
         => /\ pc' = "recv_draw" /\ last'.res = "pending"
            /\ call'.w = last'.op.args[1].c /\ call'.h = last'.h
            /\ \A w \in Handles : NewMsgs(w) = IF w = call'.w THEN 1 ELSE 0
            /\ Newest(call'.w).kind = "GetImageData"
            /\ Newest(call'.w).arg[3] = call'.route
    /\ (pc = "recv_draw" /\ pc' = "recv_draw") => \A w \in Handles : NewMsgs(w) = 0
    /\ (pc = "recv_draw" /\ pc' = "idle")
         => /\ \A w \in Handles : NewMsgs(w) = IF w = call.h THEN 1 ELSE 0
            /\ Newest(call.h).kind = "DrawImage"
            /\ \E r \in reply : r[1] = call.route /\ r[2] = Newest(call.h).arg[1]
            /\ last'.res = "Ok"

\* C3: the blocking read of the source precedes the DrawImage.
C3_CrossSurfaceDraw == []C3_DrawImageAfterAnswer /\ [][C3_ReadThenDraw]_vars

\* Handle 1 has drawn canvas 2, whose worker had a command of its own to
\* handle before the read.
C3_Witness ==
    /\ Positions(sent[1], "DrawImage") # {}
    /\ Len(consumed[2]) = 2
    /\ consumed[2][1].kind = "FillRect"
    /\ sent[1][1].arg[1].at = 1
    /\ pc = "idle"

\* C4: a drawImage of the handle's own usable canvas (given as element or as
\* context) with valid rectangles sends exactly one message, a DrawImageSelf,
\* to its own worker, sends nothing to any other worker, creates no reply
\* channel and returns without blocking.
C4_SameSurfaceStep ==
    (ScriptStart /\ last'.op.name \in DrawOps /\ ResolvedValid(last'.op)
        /\ last'.op.args[1].c = last'.h /\ workerUp[last'.h])
      => /\ \A w \in Handles : NewMsgs(w) = IF w = last'.h THEN 1 ELSE 0
         /\ Newest(last'.h).kind = "DrawImageSelf"
         /\ nextRoute' = nextRoute
         /\ pc' = "idle"
         /\ last'.res = "Ok"

C4_SameSurfaceDraw == [][C4_SameSurfaceStep]_vars

\* Handle 1 has drawn its own canvas, given as a rendering context.
C4_Witness ==
    /\ last.op.name = "drawImage_"
    /\ last.h = 1
    /\ last.op.args[1] = Context2D(1)
    /\ last.res = "Ok"
    /\ Positions(sent[1], "DrawImageSelf") = {2}

ValidationErrors == {"IndexSize", "TypeError"}

\* C5: an operation that returns IndexSize or TypeError is one of drawImage,
\* createImageData, getImageData, createLinearGradient, createRadialGradient,
\* and the step that returns it puts no message on any channel, creates no
\* reply channel, does not block and changes no field of any handle.
C5_ErrorStep ==
    (ScriptStart /\ last'.res \in ValidationErrors)
      => /\ last'.op.name \in DrawOps \cup {"createImageData", "getImageData",
                                           "createLinearGradient", "createRadialGradient"}
         /\ \A w \in Handles : NewMsgs(w) = 0 /\ Len(chan'[w]) = Len(chan[w])
         /\ nextRoute' = nextRoute
         /\ pc' = "idle"
         /\ style' = style

C5_ErrorsBeforeAnySend == [][C5_ErrorStep]_vars

\* getImageData has failed on a handle that had changed its transform and
\* still has a command queued.
C5_Witness ==
    /\ last.op.name = "getImageData"
    /\ last.res = "IndexSize"
    /\ Len(chan[1]) = 1
    /\ transform[1] # identity

\* C6: a drawImage that resolved its rectangles (its canvas is usable) has
\* failed with IndexSize exactly when the clipped source rectangle or the
\* final destination rectangle is not valid, and an IndexSize of drawImage
\* comes from nowhere else; every DrawImage and DrawImageSelf ever sent
\* carries a valid destination and a valid source rectangle.
C6_IndexSizeIffInvalid ==
    /\ (last.op.name \in DrawOps /\ last.op.rects # <<>>)
         => (last.res = "IndexSize" <=> ~ResolvedValid(last.op))
    /\ (last.op.name \in DrawOps /\ last.res = "IndexSize") => last.op.rects # <<>>
    /\ \A h \in Handles :
         /\ \A k \in Positions(sent[h], "DrawImage") :
              ValidRect(sent[h][k].arg[3]) /\ ValidRect(sent[h][k].arg[4])
         /\ \A k \in Positions(sent[h], "DrawImageSelf") :
              ValidRect(sent[h][k].arg[2]) /\ ValidRect(sent[h][k].arg[3])

\* A drawImage with a zero source width: the destination width came out of
\* the undefined cast as 5, and the clipped source rectangle is invalid.
C6_Witness ==
    /\ last.op.name = "drawImage__"
    /\ last.res = "IndexSize"
    /\ last.op.args[4] = 0
    /\ last.op.rects[2].w = 5
    /\ last.op.rects[1].w = 0

AlwaysSend == {"recreate", "scale", "translate", "transform", "setTransform",
               "fillRect", "clearRect", "strokeRect", "beginPath", "closePath",
               "fill", "moveTo", "lineTo", "quadraticCurveTo", "bezierCurveTo",
               "arc", "putImageData", "putImageData_", "drop"}

\* The call o is one that sends a command.
Emits(o) ==
    \/ o.name \in AlwaysSend
    \/ o.name = "setStrokeStyle" /\ o.args[1].tag = "eString"
         /\ parse_color(o.args[1].payload) # None
    \/ o.name = "setFillStyle"
         /\ IF o.args[1].tag = "eString" THEN parse_color(o.args[1].payload) # None
            ELSE o.args[1].tag = "eCanvasGradient"
    \/ o.name = "getImageData" /\ o.args[3] # 0 /\ o.args[4] # 0
    \/ o.name \in DrawOps /\ ResolvedValid(o)

\* The worker the first command of the call o of handle h goes to.
FirstTarget(o, h) == IF o.name \in DrawOps THEN o.args[1].c ELSE h

NoMessage == \A w \in Handles : NewMsgs(w) = 0 /\ Len(chan'[w]) = Len(chan[w])

\* C7 (step part): a call that sends a command to a worker that is gone ends in
\* the fatal failure and puts nothing on any channel; to a worker that is
\* there, it puts its command on the channel and does not fail.  The same
\* holds for the DrawImage a cross-surface drawImage sends after its read.
\* The fatal failure is final: the script thread takes no further step.
C7_SendStep ==
    /\ (ScriptStart /\ Emits(last'.op))
         => IF workerUp[FirstTarget(last'.op, last'.h)]
            THEN /\ NewMsgs(FirstTarget(last'.op, last'.h)) = 1
                 /\ last'.res \in {"Ok", "pending"}
                 /\ pc' # "panicked"
            ELSE /\ last'.res = "panic"
                 /\ pc' = "panicked"
                 /\ NoMessage
    /\ (pc = "recv_draw" /\ pc' # "recv_draw" /\ reply' # reply)
         => IF workerUp[call.h]
            THEN NewMsgs(call.h) = 1 /\ last'.res = "Ok" /\ pc' = "idle"
            ELSE last'.res = "panic" /\ pc' = "panicked" /\ NoMessage
    /\ pc = "panicked" => pc' = "panicked" /\ \A w \in Handles : NewMsgs(w) = 0

\* C7 (state part): the fatal failure is an outcome of its own, which no
\* operation reports as IndexSize, TypeError or a normal return.
C7_FatalIsDistinct == (pc = "panicked") <=> (last.res = "panic")

\* C7: a send to a worker that is gone is fatal and never silently dropped.
C7_SendToGoneWorkerIsFatal == []C7_FatalIsDistinct /\ [][C7_SendStep]_vars

\* The worker of handle 1 failed before the handle was destroyed: the Close
\* could not be sent.
C7_Witness ==
    /\ pc = "panicked"
    /\ last.op.name = "drop"
    /\ last.h = 1
    /\ last.res = "panic"
    /\ ~workerUp[1]
    /\ sent[1] = <<>>

Blocked == pc \in {"recv_get", "recv_draw"}

\* The read the blocked caller waits for is queued at a live worker, or
\* already answered.
ReadInProgress ==
    \/ \E r \in reply : r[1] = call.route
    \/ /\ workerUp[call.w]
       /\ \E i \in Positions(chan[call.w], "GetImageData") :
              chan[call.w][i].arg[3] = call.route

\* The workers keep consuming and answering; none fails.
LiveNext ==
    \/ \E h \in Studied : ScriptOp(h)
    \/ \E h \in Handles \ Studied : OtherOp(h)
    \/ RecvDrawImage
    \/ RecvImageData
    \/ \E w \in Handles : WorkerStep(w)

LiveSpec ==
    /\ Init
    /\ [][LiveNext]_vars
    /\ \A w \in Handles : WF_vars(WorkerStep(w))
    /\ WF_vars(RecvDrawImage)
    /\ WF_vars(RecvImageData)

\* C8: with workers that keep consuming their queues and answering the reads,
\* a blocked getImageData or cross-surface drawImage always has its read
\* queued at a live worker or answered, and it eventually returns.
C8_BlockingReadsReturn == [](Blocked => ReadInProgress) /\ (Blocked ~> (pc = "idle"))

\* Handle 1 is blocked in a drawImage of canvas 2, whose worker still has a
\* command to handle before the read.
C8_Witness ==
    /\ pc = "recv_draw"
    /\ call.h = 1 /\ call.w = 2
    /\ Len(chan[2]) = 2
    /\ chan[2][2].kind = "GetImageData"
    /\ reply = {}

\* The GetImageData commands sent so far, as <<worker, position>>.
Reads == UNION {{<<w, i>> : i \in Positions(sent[w], "GetImageData")} : w \in Handles}

RouteOf(p) == sent[p[1]][p[2]].arg[3]

\* C9 (state part): no two GetImageData commands carry the same reply route;
\* a blocked caller waits on the route of exactly one command, its own; every
\* reply in flight on a route is the answer to the command carrying the route.
C9_RoutesAreSingleUse ==
    /\ \A p, q \in Reads : RouteOf(p) = RouteOf(q) => p = q
    /\ Blocked => \E p \in Reads :
                     /\ p[1] = call.w
                     /\ RouteOf(p) = call.route
                     /\ \A q \in Reads : RouteOf(q) = call.route => q = p
    /\ \A r \in reply : \E p \in Reads :
          /\ RouteOf(p) = r[1]
          /\ p[2] <= Len(consumed[p[1]])
          /\ AnswerOf(p[1], p[2], r[2])

\* C9 (step part): the data getImageData returns is the answer of its worker
\* to the command that carries the route of this call.
C9_ReturnsOwnReply ==
    (pc = "recv_get" /\ pc' = "idle")
      => \E p \in Reads :
            /\ p[1] = call.w
            /\ RouteOf(p) = call.route
            /\ AnswerOf(p[1], p[2], last'.val[1].data)

\* C9: one reply route for each read, and each read returns its own reply.
C9_FreshReplyRoute == []C9_RoutesAreSingleUse /\ [][C9_ReturnsOwnReply]_vars

\* A second read has returned: a drawImage of canvas 2 used route 1, the
\* getImageData of handle 1 used route 2.
C9_Witness ==
    /\ nextRoute = 2
    /\ pc = "idle"
    /\ last.op.name = "getImageData"
    /\ last.res = "Ok"
    /\ Positions(sent[2], "GetImageData") # {}
    /\ Positions(sent[1], "DrawImage") # {}

TransformOps == {"scale", "translate", "transform", "setTransform"}

\* The matrix the transform call o makes of the matrix t.
Resulting(o, t) ==
    IF o.name = "scale" THEN scale(t, o.args[1], o.args[2])
    ELSE IF o.name = "translate" THEN translate(t, o.args[1], o.args[2])
    ELSE IF o.name = "transform" THEN mul(t, o.args[1])
    ELSE o.args[1]

\* The handle h failed fatally in a transform operation.
TransformFailed(h) == pc = "panicked" /\ last.h = h /\ last.op.name \in TransformOps

\* C10 (state part): the last SetTransform a handle has sent carries its
\* current transform, and a handle that has sent none still has the identity.
C10_LastSetTransformIsCurrent ==
    \A h \in Handles :
        LET sets == Positions(sent[h], "SetTransform") IN
        ~TransformFailed(h) =>
            IF sets = {} THEN transform[h] = identity
            ELSE \E k \in sets :
                    /\ \A j \in sets : j <= k
                    /\ sent[h][k].arg[1] = transform[h]

\* C10 (step part): each of scale, translate, transform and setTransform
\* sends exactly one command, a SetTransform carrying the matrix that results
\* from applying the call to the transform the handle had.
C10_OneSetTransform ==
    (ScriptStart /\ last'.op.name \in TransformOps /\ workerUp[last'.h])
      => /\ \A w \in Handles : NewMsgs(w) = IF w = last'.h THEN 1 ELSE 0
         /\ Newest(last'.h).kind = "SetTransform"
         /\ Newest(last'.h).arg[1] = Resulting(last'.op, transform[last'.h])
         /\ transform'[last'.h] = Resulting(last'.op, transform[last'.h])

\* C10: the worker is sent the resulting matrix after every change.
C10_WorkerHasCurrentTransform ==
    []C10_LastSetTransformIsCurrent /\ [][C10_OneSetTransform]_vars

\* A transform after a scale: the second SetTransform carries the product,
\* which differs from the argument of the call.
C10_Witness ==
    /\ Len(sent[1]) = 2
    /\ sent[1][1].kind = "SetTransform"
    /\ sent[1][2].kind = "SetTransform"
    /\ last.op.name = "transform"
    /\ sent[1][2].arg[1] = transform[1]
    /\ sent[1][2].arg[1] # last.op.args[1]

\* The step is a call of scale on the handle whose setTransform(M) was the
\* call before it, with nothing in between.
ScaleAfterSetTransform ==
    /\ ScriptStart
    /\ last.op.name = "setTransform" /\ last.res = "Ok"
    /\ last'.op.name = "scale" /\ last'.h = last.h
    /\ workerUp[last.h]

\* C11 (as the code has it): setTransform(M) followed immediately by
\* scale(sx, sy) sends two SetTransform commands to the worker: the first
\* carries M, the second, the latest the worker observes, carries the combined
\* matrix M scaled by (sx, sy), not the scale alone.
C11_StepSendsBoth ==
    ScaleAfterSetTransform =>
        LET h == last.h
            M == last.op.args[1]
            n == Len(sent[h])
        IN  /\ n >= 1
            /\ sent[h][n].kind = "SetTransform"
            /\ sent[h][n].arg[1] = M
            /\ Len(sent'[h]) = n + 1
            /\ sent'[h][n].kind = "SetTransform" /\ sent'[h][n].arg[1] = M
            /\ Newest(h).kind = "SetTransform"
            /\ Newest(h).arg[1] = scale(M, last'.op.args[1], last'.op.args[2])
            /\ Newest(h).arg[1] # scale(identity, last'.op.args[1], last'.op.args[2])
            /\ transform'[h] = Newest(h).arg[1]

C11_StepHidesIntermediate ==
    ScaleAfterSetTransform =>
        LET h == last.h
            n == Len(sent[h])
        IN  ~(n >= 1 /\ sent'[h][n].kind = "SetTransform"
                     /\ sent'[h][n].arg[1] = last.op.args[1])

IsProduct(r, cur, m) ==
    /\ r[1] = m[1] * cur[1] + m[2] * cur[3]
    /\ r[2] = m[1] * cur[2] + m[2] * cur[4]
    /\ r[3] = m[3] * cur[1] + m[4] * cur[3]
    /\ r[4] = m[3] * cur[2] + m[4] * cur[4]
    /\ r[5] = m[5] * cur[1] + m[6] * cur[3] + cur[5]
    /\ r[6] = m[5] * cur[2] + m[6] * cur[4] + cur[6]

\* C12: setTransform(M) makes the transform of the handle exactly M whatever
\* it was before (so a second setTransform(M) changes nothing); transform(M)
\* makes it the product of the transform it had with M.  Neither touches the
\* transform of another handle.
C12_Step ==
    /\ (ScriptStart /\ last'.op.name = "setTransform")
         => /\ transform'[last'.h] = last'.op.args[1]
            /\ transform[last'.h] = last'.op.args[1] => transform' = transform
    /\ (ScriptStart /\ last'.op.name = "transform")
         => IsProduct(transform'[last'.h], transform[last'.h], last'.op.args[1])
    /\ (ScriptStart /\ last'.op.name \in {"setTransform", "transform"})
         => \A g \in Handles \ {last'.h} : transform'[g] = transform[g]

C12_SetReplacesTransformMultiplies == [][C12_Step]_vars

\* setTransform(M) on a handle that had scaled: the scale was sent, and the
\* transform is M, with no trace of the scale.
C12_Witness ==
    /\ last.op.name = "setTransform" /\ last.h = 1 /\ last.res = "Ok"
    /\ Len(sent[1]) = 2
    /\ sent[1][1].kind = "SetTransform"
    /\ sent[1][1].arg[1] = scale(identity, 2, 3)
    /\ transform[1] = last.op.args[1]
    /\ transform[1] # mul(scale(identity, 2, 3), last.op.args[1])

\* Strings that are no colour (currentColor is a keyword that names no RGBA).
NoColour == {"not-a-color", "currentColor"}

StyleSetters == {"setFillStyle", "setStrokeStyle"}

\* The call o sets a style to a string that is no colour.
RejectedStyle(o) ==
    /\ o.name \in StyleSetters
    /\ o.args[1].tag = "eString"
    /\ o.args[1].payload \in NoColour

\* The fill style in force at the end of the command sequence q: that of its
\* last SetFillStyle, opaque black if it has none.
FillStyleInForce(q) ==
    LET sets == Positions(q, "SetFillStyle") IN
    IF sets = {} THEN Color(black)
    ELSE q[CHOOSE k \in sets : \A j \in sets : j <= k].arg[1]

\* C13: setFillStyle or setStrokeStyle with a string that is no colour returns
\* normally, changes no colour (nor any other field) of any handle and sends
\* no command; a fillRect that follows it puts a FillRect on the channel with
\* the fill style in force there still the one from before the rejected call.
C13_Step ==
    /\ (ScriptStart /\ RejectedStyle(last'.op))
         => /\ last'.res = "Ok"
            /\ pc' = "idle"
            /\ style' = style
            /\ NoMessage
            /\ FillStyleInForce(sent'[last'.h]) = FillStyleInForce(sent[last'.h])
    /\ (ScriptStart /\ RejectedStyle(last.op) /\ last'.op.name = "fillRect"
           /\ last'.h = last.h /\ workerUp[last.h])
         => /\ Newest(last.h).kind = "FillRect"
            /\ NewMsgs(last.h) = 1
            /\ FillStyleInForce(sent'[last.h]) = FillStyleInForce(sent[last.h])
            /\ fill_color' = fill_color

Colours == {"red", "#00f"}
ColourOf(string) == IF string = "red" THEN <<1, 0, 0, 1>> ELSE <<0, 0, 1, 1>>
SerializationOf(rgba) ==
    IF rgba = <<0, 0, 0, 1>> THEN "rgb(0, 0, 0)"
    ELSE IF rgba = <<1, 0, 0, 1>> THEN "rgb(255, 0, 0)"
    ELSE "rgb(0, 0, 255)"

\* The call o of a style setter is given a string that is a colour.
AcceptedColour(o, setter) ==
    o.name = setter /\ o.args[1].tag = "eString" /\ o.args[1].payload \in Colours

\* The colour the handle h last accepted through the setter whose command is
\* kind, read off the channel: opaque black if it accepted none.
LastAccepted(h, kind) ==
    LET sets == {k \in Positions(sent[h], kind) : sent[h][k].arg[1].tag = "Color"} IN
    IF sets = {} THEN <<0, 0, 0, 1>>
    ELSE sent[h][CHOOSE k \in sets : \A j \in sets : j <= k].arg[1].payload

\* C14 (as claimed, state part): a fillStyle read has returned the
\* serialization of the colour setFillStyle last accepted on that handle,
\* opaque black if it accepted none.
C14_FillStyleReadsBack ==
    (last.op.name = "fillStyle" /\ last.res = "Ok")
        => last.val[1] = SerializationOf(LastAccepted(last.h, "SetFillStyle"))

\* Handle 1 set its fill style to red and read fillStyle back.
C14_Witness ==
    /\ last.op.name = "fillStyle" /\ last.h = 1
    /\ fill_color[1] = <<1, 0, 0, 1>>
    /\ stroke_color[1] = <<0, 0, 0, 1>>
    /\ last.val[1] = "rgb(0, 0, 0)"

\* C15 (state part): a strokeStyle read has returned the serialization of the
\* colour setStrokeStyle last accepted on that handle, opaque black if it
\* accepted none.
C15_StrokeStyleReadsBack ==
    (last.op.name = "strokeStyle" /\ last.res = "Ok")
        => last.val[1] = SerializationOf(LastAccepted(last.h, "SetStrokeStyle"))

\* C15 (step part): setStrokeStyle with a string that is the colour C, then
\* strokeStyle, yields the serialization of C.
C15_SetThenGet ==
    (ScriptStart /\ AcceptedColour(last.op, "setStrokeStyle") /\ last.res = "Ok"
        /\ last'.op.name = "strokeStyle" /\ last'.h = last.h)
      => last'.val[1] = SerializationOf(ColourOf(last.op.args[1].payload))

\* C15: strokeStyle reads back the last accepted stroke colour.
C15_StrokeStyleRoundTrip == []C15_StrokeStyleReadsBack /\ [][C15_SetThenGet]_vars

\* Handle 1 set its stroke style to red and read strokeStyle back; its fill
\* colour is still black.
C15_Witness ==
    /\ last.op.name = "strokeStyle" /\ last.h = 1
    /\ last.val[1] = "rgb(255, 0, 0)"
    /\ fill_color[1] = <<0, 0, 0, 1>>
    /\ Len(sent[1]) = 1 /\ sent[1][1].kind = "SetStrokeStyle"

\* The command a style setter sends.
CommandOf(setter) == IF setter = "setFillStyle" THEN "SetFillStyle" ELSE "SetStrokeStyle"

\* C16 (as claimed): setFillStyle and setStrokeStyle given a gradient each
\* send exactly one command to the worker of the handle, SetFillStyle
\* respectively SetStrokeStyle, carrying the gradient's wire representation,
\* and leave the fill and stroke colours unchanged.
C16_Step ==
    (ScriptStart /\ last'.op.name \in StyleSetters
        /\ last'.op.args[1].tag = "eCanvasGradient" /\ workerUp[last'.h])
      => /\ \A w \in Handles : NewMsgs(w) = IF w = last'.h THEN 1 ELSE 0
         /\ Newest(last'.h).kind = CommandOf(last'.op.name)
         /\ Newest(last'.h).arg[1].tag \in {"LinearGradient", "RadialGradient"}
         /\ Newest(last'.h).arg[1].payload = last'.op.args[1].payload
         /\ fill_color' = fill_color
         /\ stroke_color' = stroke_color

C16_GradientStyleIsSent == [][C16_Step]_vars

\* Handle 1 was given a gradient as stroke style, and its channel is empty.
C16_Witness ==
    /\ last.op.name = "setStrokeStyle" /\ last.h = 1 /\ last.res = "Ok"
    /\ last.op.args[1].tag = "eCanvasGradient"
    /\ workerUp[1]
    /\ sent[1] = <<>>

----------------------------------------------------------------------------
(* drawImage rectangles *)

\* The integer part of an f64 given in halves: truncation toward zero.
IntPart(x) == IF x >= 0 THEN x \div 2 ELSE -((-x) \div 2)

\* The rectangles carried by the drawing command that the last operation sent
\* or is about to send: <<source, dest>>, or <<>> when it sends none.
DrawCommand ==
    IF last.res = "Ok" /\ last.op.rects # <<>> /\ sent[last.h] # <<>>
    THEN LET m == sent[last.h][Len(sent[last.h])]
         IN  IF m.kind = "DrawImageSelf" THEN <<m.arg[3], m.arg[2]>>
             ELSE IF m.kind = "DrawImage" THEN <<m.arg[4], m.arg[3]>>
             ELSE <<>>
    ELSE <<>>

\* The size of the canvas that the image argument of the last operation is.
IntrinsicSize == canvas_size[last.op.args[1].c]

\* C17: drawImage(image, dx, dy) resolves the source rectangle to the whole
\* image (0, 0, iw, ih) and the destination to (dx, dy, iw, ih), coordinates
\* as integers, whether the image is a canvas element or a rendering context;
\* the drawing command it sends carries exactly these two rectangles.
C17_WholeImageAtOrigin ==
    (last.op.name = "drawImage" /\ last.op.rects # <<>>) =>
        LET iw == IntrinsicSize[1]
            ih == IntrinsicSize[2]
        IN  /\ last.op.args[1].tag \in {"eHTMLCanvasElement", "eCanvasRenderingContext2D"}
            /\ last.op.rects[1] = Rect(0, 0, iw, ih)
            /\ last.op.rects[2] = Rect(IntPart(last.op.args[2]),
                                       IntPart(last.op.args[3]), iw, ih)
            /\ last.res = "Ok" => DrawCommand = last.op.rects

\* A drawImage(context, 1.5, 1) of a 40x40 canvas onto another has been sent.
C17_Witness ==
    /\ last.op.name = "drawImage"
    /\ last.res = "Ok"
    /\ last.op.args[1] = Context2D(2)
    /\ last.h = 1
    /\ last.op.args[2] = 3
    /\ DrawCommand = <<Rect(0, 0, 40, 40), Rect(1, 1, 40, 40)>>

\* C18: drawImage(image, dx, dy, dw, dh) resolves the source rectangle to the
\* whole image (0, 0, iw, ih) and the destination to (dx, dy, dw, dh),
\* coordinates as integers, whether the image is a canvas element or a
\* rendering context and whatever the size of the image.
C18_WholeImageScaled ==
    (last.op.name = "drawImage_" /\ last.op.rects # <<>>) =>
        /\ last.op.rects[1] = Rect(0, 0, IntrinsicSize[1], IntrinsicSize[2])
        /\ last.op.rects[2] = Rect(IntPart(last.op.args[2]), IntPart(last.op.args[3]),
                                   IntPart(last.op.args[4]), IntPart(last.op.args[5]))
        /\ last.res = "Ok" => DrawCommand = last.op.rects

\* drawImage(context, 0, 0, 2, 3) of a 4x4 canvas has been sent with the
\* destination at the size of the image.
C18_Witness ==
    /\ last.op.name = "drawImage_"
    /\ last.res = "Ok"
    /\ last.op.args[1].tag = "eCanvasRenderingContext2D"
    /\ last.op.args[4] = 4 /\ last.op.args[5] = 6
    /\ DrawCommand = <<Rect(0, 0, 4, 4), Rect(0, 0, 4, 4)>>

\* The canvas-element form of the same call keeps the destination size.
C18_ElementFormScaled ==
    /\ last.op.name = "drawImage_"
    /\ last.res = "Ok"
    /\ last.op.args[1].tag = "eHTMLCanvasElement"
    /\ DrawCommand = <<Rect(0, 0, 4, 4), Rect(0, 0, 2, 3)>>

\* The intersection of the f64 rectangle (x, y, w, h) with the bounds of an
\* image of size iw x ih, everything in halves, or the zero rectangle when
\* they do not intersect: computed on the numbers as given.
ClipToImage(x, y, w, h, iw, ih) ==
    LET left == Max(x, 0)
        top == Max(y, 0)
        right == Min(x + w, 2 * iw)
        bottom == Min(y + h, 2 * ih)
    IN  IF left < right /\ top < bottom
        THEN Rect(left, top, right - left, bottom - top)
        ELSE RectZero

\* The rectangles that drawImage(image, sx, sy, sw, sh, dx, dy, dw, dh) is to
\* resolve for the arguments a of the operation, coordinates as integers.
ClippedSource(a) ==
    LET c == ClipToImage(a[2], a[3], a[4], a[5], IntrinsicSize[1], IntrinsicSize[2])
    IN  Rect(IntPart(c.x), IntPart(c.y), IntPart(c.w), IntPart(c.h))

ScaledDestMatches(a, dest) ==
    LET c == ClipToImage(a[2], a[3], a[4], a[5], IntrinsicSize[1], IntrinsicSize[2])
    IN  /\ dest.x = IntPart(a[6])
        /\ dest.y = IntPart(a[7])
        /\ dest.w = TruncDiv(a[8] * c.w, 2 * a[4])
        /\ dest.h = TruncDiv(a[9] * c.h, 2 * a[5])

\* The last operation is a drawImage with a source rectangle whose width and
\* height are not zero, on a usable canvas.
C19_Draw ==
    /\ last.op.name = "drawImage__"
    /\ last.op.rects # <<>>
    /\ last.op.args[4] # 0
    /\ last.op.args[5] # 0

C19_Resolved ==
    /\ last.op.rects[1] = ClippedSource(last.op.args)
    /\ ScaledDestMatches(last.op.args, last.op.rects[2])
    /\ last.res = "Ok" => DrawCommand = last.op.rects

\* C19: drawImage(image, sx, sy, sw, sh, dx, dy, dw, dh) sends as source the
\* intersection of (sx, sy, sw, sh) with the image bounds (the zero rectangle
\* when there is none) and as destination (dx, dy) with the width
\* dw * clippedWidth / sw and the height dh * clippedHeight / sh (sw and sh
\* not zero).
C19_ClipAndScale == C19_Draw => C19_Resolved

\* drawImage(image, -0.5, 0, 4, 4, 0, 0, 8, 8) of a 4x4 canvas, whose source
\* has 3.5 of its 4 columns in the image, has been sent with the whole image
\* as source and an unscaled destination.
C19_Witness ==
    /\ C19_Draw
    /\ last.res = "Ok"
    /\ last.op.args[2] = -1 /\ last.op.args[4] = 8 /\ last.op.args[8] = 16
    /\ IntrinsicSize = <<4, 4>>
    /\ ClipToImage(-1, 0, 8, 8, 4, 4) = Rect(0, 0, 7, 8)
    /\ DrawCommand = <<Rect(0, 0, 4, 4), Rect(0, 0, 8, 8)>>

\* The same statement for source rectangles given in whole pixels.
C19_WholePixelSource ==
    (C19_Draw /\ \A i \in 2..5 : last.op.args[i] % 2 = 0) => C19_Resolved

\* Source (10, 10, 50, 50) of a 4x4 canvas has been resolved to the zero
\* rectangle and refused.
C19_NoIntersection ==
    /\ C19_Draw
    /\ last.res = "IndexSize"
    /\ IntrinsicSize = <<4, 4>>
    /\ last.op.rects[1] = RectZero

\* Source (10, 10, 50, 50) of a 40x40 canvas drawn to (0, 0, 25, 25) has been
\* sent as source (10, 10, 30, 30) and destination (0, 0, 15, 15).
C19_Example ==
    /\ last.op.name = "drawImage__"
    /\ last.res = "Ok"
    /\ last.op.args[2] = 20 /\ last.op.args[4] = 100 /\ last.op.args[8] = 50
    /\ IntrinsicSize = <<40, 40>>
    /\ DrawCommand = <<Rect(10, 10, 30, 30), Rect(0, 0, 15, 15)>>

----------------------------------------------------------------------------
(* createImageData and getImageData *)

\* The width and height arguments of createImageData(sw, sh) or
\* getImageData(sx, sy, sw, sh).
SizeArgs(o) == IF o.name = "createImageData" THEN <<o.args[1], o.args[2]>>
               ELSE <<o.args[3], o.args[4]>>

ZeroSize(o) == SizeArgs(o)[1] = 0 \/ SizeArgs(o)[2] = 0

\* An ImageData of the size (|sw|, |sh|) of the call o, as integers.
SizedFor(o, d) ==
    /\ d.width = IntPart(Abs(SizeArgs(o)[1]))
    /\ d.height = IntPart(Abs(SizeArgs(o)[2]))

\* C20 (call part): createImageData(sw, sh) and getImageData(sx, sy, sw, sh)
\* fail with IndexSize exactly when sw or sh is zero, and then send nothing.
\* Otherwise createImageData succeeds at once with an ImageData of zeros and
\* sends no command; getImageData, its worker being there, sends exactly one
\* GetImageData, to its own worker, and waits for the answer.
C20_CallStep ==
    (ScriptStart /\ last'.op.name \in {"createImageData", "getImageData"}) =>
        LET o == last'.op
            h == last'.h
        IN  /\ last'.res = "IndexSize" <=> ZeroSize(o)
            /\ ZeroSize(o) => NoMessage /\ pc' = "idle"
            /\ (o.name = "createImageData" /\ ~ZeroSize(o)) =>
                   /\ last'.res = "Ok"
                   /\ NoMessage
                   /\ pc' = "idle"
                   /\ SizedFor(o, last'.val[1])
                   /\ last'.val[1].data.worker = 0
                   /\ last'.val[1].data.len = last'.val[1].width * last'.val[1].height * 4
            /\ (o.name = "getImageData" /\ ~ZeroSize(o) /\ workerUp[h]) =>
                   /\ NewMsgs(h) = 1
                   /\ Newest(h).kind = "GetImageData"
                   /\ \A w \in Handles \ {h} : NewMsgs(w) = 0
                   /\ last'.res = "pending"
                   /\ pc' = "recv_get"

\* C20 (return part): getImageData returns from its wait with an ImageData,
\* having sent nothing more.
C20_ReturnStep ==
    (pc = "recv_get" /\ pc' = "idle") =>
        /\ last'.op.name = "getImageData"
        /\ last'.h = last.h
        /\ last'.res = "Ok"
        /\ SizedFor(last'.op, last'.val[1])
        /\ last'.val[1].data.worker = last.h
        /\ NoMessage

\* C20: see the two parts above.
C20_ImageDataCalls == [][C20_CallStep /\ C20_ReturnStep]_vars

\* getImageData(0, 0, 2, 2) has returned a 2x2 ImageData read by its own
\* worker, GetImageData being the one command the handle ever sent.
C20_Witness ==
    /\ last.op.name = "getImageData"
    /\ last.res = "Ok"
    /\ last.val[1].width = 2
    /\ last.val[1].data.worker = last.h
    /\ Len(sent[last.h]) = 1
    /\ sent[last.h][1].kind = "GetImageData"

\* createImageData(-1.5, 2) has returned a 1x2 ImageData of zeros.
C20_NegativeWidth ==
    /\ last.op.name = "createImageData"
    /\ last.op.args[1] = -3
    /\ last.res = "Ok"
    /\ last.val[1] = ImageData(1, 2, None)

----------------------------------------------------------------------------
(* ImageData buffers *)

ImageDataOps == {"createImageData", "createImageData_", "getImageData"}

----------------------------------------------------------------------------
(* putImageData *)

PutOps == {"putImageData", "putImageData_"}

\* C22: putImageData in either form, its worker being there, succeeds and
\* sends exactly one command, a PutImageData, to its own worker: it carries
\* the buffer of the ImageData, the destination rectangle of origin (dx, dy)
\* as integers and of the size of the ImageData, and as dirty rectangle None
\* in the short form and (dirtyX, dirtyY, dirtyW, dirtyH) as integers in the
\* long form, whatever these numbers are.
C22_PutStep ==
    (ScriptStart /\ last'.op.name \in PutOps /\ workerUp[last'.h]) =>
        LET a == last'.op.args
            h == last'.h
            m == Newest(h)
        IN  /\ last'.res = "Ok"
            /\ pc' = "idle"
            /\ NewMsgs(h) = 1
            /\ \A w \in Handles \ {h} : NewMsgs(w) = 0
            /\ m.kind = "PutImageData"
            /\ m.arg[1] = a[1].data
            /\ m.arg[2] = Rect(IntPart(a[2]), IntPart(a[3]), a[1].width, a[1].height)
            /\ m.arg[3] = IF last'.op.name = "putImageData" THEN None
                          ELSE Some(Rect(IntPart(a[4]), IntPart(a[5]),
                                         IntPart(a[6]), IntPart(a[7])))

C22_OnePutImageData == [][C22_PutStep]_vars

\* putImageData(data, 1.5, -1, -1.5, 0, 0, -2) has sent its command with the
\* destination (1, -1, 2, 2) and the dirty rectangle (-1, 0, 0, -2) after
\* the short form had sent one without.
C22_Witness ==
    /\ last.op.name = "putImageData_"
    /\ last.res = "Ok"
    /\ Len(sent[last.h]) = 2
    /\ sent[last.h][1].kind = "PutImageData"
    /\ sent[last.h][1].arg[3] = None
    /\ sent[last.h][2].kind = "PutImageData"
    /\ sent[last.h][2].arg[2] = Rect(1, -1, 2, 2)
    /\ sent[last.h][2].arg[3] = Some(Rect(-1, 0, 0, -2))

----------------------------------------------------------------------------
(* putImageData then getImageData *)

\* getImageData has returned on a handle whose command just before the read
\* was a putImageData(data, dx, dy) for the rectangle that was read.
ReadAfterPut ==
    /\ last.op.name = "getImageData"
    /\ last.res = "Ok"
    /\ LET s == sent[last.h]
           k == Len(s)
       IN  /\ k >= 2
           /\ s[k].kind = "GetImageData"
           /\ s[k - 1].kind = "PutImageData"
           /\ s[k - 1].arg[3] = None
           /\ s[k - 1].arg[2] = s[k].arg[1]

----------------------------------------------------------------------------
(* TypeError *)

GradientOps == {"createLinearGradient", "createRadialGradient"}

NonFinite == {NaN, Inf, NegInf}

\* The call o has an argument that is NaN or infinite.
HasNonFinite(o) == \E i \in 1..Len(o.args) : o.args[i] \in NonFinite

\* C24: createLinearGradient and createRadialGradient have failed with
\* TypeError exactly when one of their arguments is NaN or infinite, and have
\* otherwise returned a gradient of their kind, with their arguments and no
\* colour stops; drawImage in any form has failed with TypeError exactly when
\* its image is neither a canvas element nor a rendering context.
C24_TypeErrors ==
    /\ last.op.name \in GradientOps =>
           /\ last.res = "TypeError" <=> HasNonFinite(last.op)
           /\ ~HasNonFinite(last.op) =>
                  /\ last.res = "Ok"
                  /\ last.val[1].tag = IF last.op.name = "createLinearGradient"
                                       THEN "LinearGradient" ELSE "RadialGradient"
                  /\ last.val[1].a = last.op.args
                  /\ last.val[1].stops = <<>>
    /\ last.op.name \in DrawOps =>
           (last.res = "TypeError" <=>
               last.op.args[1].tag \notin {"eHTMLCanvasElement",
                                           "eCanvasRenderingContext2D"})

\* createRadialGradient with an infinite radius has failed with TypeError.
C24_Witness ==
    /\ last.op.name = "createRadialGradient"
    /\ last.op.args[3] = NegInf
    /\ last.res = "TypeError"

\* drawImage with an image element and an empty source has failed with
\* TypeError.
C24_UnknownImage ==
    /\ last.op.name = "drawImage__"
    /\ last.op.args[1] = ImageElement
    /\ last.op.args[4] = 0
    /\ last.res = "TypeError"

----------------------------------------------------------------------------
(* Truncation and the ratios of drawImage *)

\* C25: the rectangles drawImage(image, sx, sy, sw, sh, dx, dy, dw, dh) has
\* resolved are those of the source rectangle as given: the source is the
\* intersection of the untruncated (sx, sy, sw, sh) with the image, made
\* integers afterwards, and the destination size is (dw, dh) scaled by the
\* ratios of that intersection to the untruncated (sw, sh), made integers
\* last.
C25_TruncatedLast ==
    C19_Draw =>
        LET a == last.op.args
            c == ClipToImage(a[2], a[3], a[4], a[5], IntrinsicSize[1], IntrinsicSize[2])
        IN  /\ last.op.rects[1].w = IntPart(c.w)
            /\ last.op.rects[1].h = IntPart(c.h)
            /\ last.op.rects[2].w = TruncDiv(a[8] * c.w, 2 * a[4])
            /\ last.op.rects[2].h = TruncDiv(a[9] * c.h, 2 * a[5])

\* A source rectangle with sx = -0.5, of which 3.5 of 4 columns lie in the
\* image, has been resolved to a source 4 wide and a destination 8 of 8 wide.
C25_Witness ==
    /\ C19_Draw
    /\ last.op.args[2] % 2 # 0
    /\ ClipToImage(last.op.args[2], last.op.args[3], last.op.args[4], last.op.args[5],
                   IntrinsicSize[1], IntrinsicSize[2]).w = 7
    /\ last.op.rects[1].w = 4
    /\ last.op.rects[2].w = IntPart(last.op.args[8])

\* The last operation is a drawImage on a usable canvas with a source
\* rectangle of width zero or of height zero.
EmptySourceDraw ==
    /\ last.op.name = "drawImage__"
    /\ last.op.rects # <<>>
    /\ last.op.args[4] = 0 \/ last.op.args[5] = 0

\* C26: a drawImage whose source width (height) is zero has resolved the
\* destination width (height) to 0, the ratio being taken as 0, and has
\* failed with IndexSize.
C26_ZeroRatio ==
    EmptySourceDraw =>
        /\ last.op.args[4] = 0 => last.op.rects[2].w = 0
        /\ last.op.args[5] = 0 => last.op.rects[2].h = 0
        /\ last.res = "IndexSize"

\* drawImage(image, 1, 1, 0, 2, 0, 0, 2, 2) has resolved a destination of
\* negative width.
C26_Witness ==
    /\ EmptySourceDraw
    /\ last.op.args[4] = 0
    /\ last.op.rects[2].w < 0
    /\ last.res = "IndexSize"

\* Whatever the destination size comes out as, a drawImage with an empty
\* source fails with IndexSize, its clipped source being empty.
C26_EmptySourceRefused ==
    EmptySourceDraw =>
        /\ last.res = "IndexSize"
        /\ last.op.rects[1].w = 0 \/ last.op.rects[1].h = 0

\* ... and sends nothing.
C26_EmptySourceSendsNothing ==
    [][(ScriptStart /\ last'.op.name = "drawImage__" /\ last'.op.rects # <<>>
        /\ (last'.op.args[4] = 0 \/ last'.op.args[5] = 0)) => NoMessage]_vars

----------------------------------------------------------------------------
(* drawImage of a canvas that is not usable *)

\* The image of the drawImage call o is a canvas, given as element or as
\* context, that has no pixels: its width or its height is zero.
EmptyCanvasImage(o) ==
    /\ o.name \in DrawOps
    /\ o.args[1].tag \in {"eHTMLCanvasElement", "eCanvasRenderingContext2D"}
    /\ canvas_size[o.args[1].c][1] = 0 \/ canvas_size[o.args[1].c][2] = 0

\* C27: drawImage, in any of its three forms and whatever its numbers are,
\* of a canvas that is not usable returns success at once: it resolves no
\* rectangle, sends nothing to any worker, does not wait, and leaves the
\* state of every handle as it was.
C27_Step ==
    (ScriptStart /\ EmptyCanvasImage(last'.op)) =>
        /\ last'.res = "Ok"
        /\ last'.op.rects = <<>>
        /\ NoMessage
        /\ sent' = sent
        /\ pc' = "idle"
        /\ call' = call
        /\ reply' = reply /\ nextRoute' = nextRoute
        /\ style' = style
        /\ canvas_size' = canvas_size /\ alive' = alive

C27_UnusableCanvasIsNoOp == [][C27_Step]_vars

\* drawImage with a source of width zero, of a canvas resized to 0x4, has
\* returned success with nothing sent but the Recreate of the resize.
C27_Witness ==
    /\ EmptyCanvasImage(last.op)
    /\ last.op.name = "drawImage__"
    /\ last.op.args[4] = 0
    /\ last.res = "Ok"
    /\ \A w \in Handles : \A i \in 1..Len(sent[w]) : sent[w][i].kind = "Recreate"

----------------------------------------------------------------------------
(* The read of a cross-surface drawImage on the queue of the source *)

\* C28 (call part): a drawImage that goes on to read from another canvas puts
\* its GetImageData, for the source rectangle, at the end of the queue of the
\* worker of that canvas: behind every command its handle has sent so far.
C28_ReadStep ==
    (ScriptStart /\ last'.op.name \in DrawOps /\ last'.res = "pending") =>
        LET c == last'.op.args[1].c
        IN  /\ c # last'.h
            /\ NewMsgs(c) = 1
            /\ Newest(c).kind = "GetImageData"
            /\ Newest(c).arg[1] = last'.op.rects[1]
            /\ sent'[c] = Append(sent[c], Newest(c))
            /\ chan'[c] = Append(chan[c], Newest(c))

\* C28 (state part): the bytes a DrawImage carries were read by the worker
\* of the source after exactly the commands that precede the GetImageData on
\* its queue, in the order in which they were sent: all those sent before
\* the drawImage call, none of those sent after.
C28_BytesOfThatMoment ==
    \A h \in Handles : \A k \in Positions(sent[h], "DrawImage") :
        LET b == sent[h][k].arg[1]
            w == b.worker
        IN  /\ w \in Handles \ {h}
            /\ b.at + 1 \in Positions(sent[w], "GetImageData")
            /\ sent[w][b.at + 1].arg[1] = b.rect
            /\ Len(consumed[w]) >= b.at + 1
            /\ \A i \in 1..(b.at + 1) : consumed[w][i].kind = sent[w][i].kind

\* C28: see the two parts above.
C28_ReadInSourceOrder == []C28_BytesOfThatMoment /\ [][C28_ReadStep]_vars

\* Handle 1 has drawn canvas 2 with the bytes read after the one command
\* that handle 2 had sent before.
C28_Witness ==
    /\ last.op.name \in DrawOps
    /\ last.res = "Ok"
    /\ last.h = 1
    /\ last.op.args[1].c = 2
    /\ Len(sent[2]) = 2
    /\ sent[2][1].kind \in {"FillRect", "Recreate"}
    /\ sent[2][2].kind = "GetImageData"
    /\ sent[1][Len(sent[1])].kind = "DrawImage"
    /\ sent[1][Len(sent[1])].arg[1].at = 1

\* Handle 2 has sent a command after handle 1 had drawn canvas 2 with the
\* bytes read before it.
C28_LaterCommand ==
    /\ last.h = 2
    /\ Len(sent[2]) = 2
    /\ sent[2][1].kind = "GetImageData"
    /\ sent[2][2].kind \in {"FillRect", "Recreate"}
    /\ Len(sent[1]) = 1
    /\ sent[1][1].kind = "DrawImage"
    /\ sent[1][1].arg[1].at = 0

----------------------------------------------------------------------------
(* Operations that only send a command *)

\* The kind of command of each command-only operation.
MatchingKind(name) ==
    CASE name = "recreate" -> "Recreate"
      [] name = "fillRect" -> "FillRect"
      [] name = "clearRect" -> "ClearRect"
      [] name = "strokeRect" -> "StrokeRect"
      [] name = "beginPath" -> "BeginPath"
      [] name = "closePath" -> "ClosePath"
      [] name = "fill" -> "Fill"
      [] name = "moveTo" -> "MoveTo"
      [] name = "lineTo" -> "LineTo"
      [] name = "quadraticCurveTo" -> "QuadraticCurveTo"
      [] name = "bezierCurveTo" -> "BezierCurveTo"
      [] name = "arc" -> "Arc"
      [] name = "putImageData" -> "PutImageData"
      [] name = "putImageData_" -> "PutImageData"

CommandOnlyOps == {"recreate", "fillRect", "clearRect", "strokeRect", "beginPath",
                   "closePath", "fill", "moveTo", "lineTo", "quadraticCurveTo",
                   "bezierCurveTo", "arc", "putImageData", "putImageData_"}

\* C29 (commands): a command-only operation never waits, never returns a
\* validation error and leaves the transform, the fill colour, the stroke
\* colour and the smoothing flag of every handle as they were; its worker
\* being there, it succeeds and sends exactly one command, of its kind, to
\* its own worker.
C29_CommandStep ==
    (ScriptStart /\ last'.op.name \in CommandOnlyOps) =>
        LET h == last'.h
        IN  /\ style' = style
            /\ pc' \in {"idle", "panicked"}
            /\ last'.res \notin ValidationErrors \cup {"pending"}
            /\ reply' = reply /\ nextRoute' = nextRoute
            /\ \A w \in Handles \ {h} : NewMsgs(w) = 0
            /\ workerUp[h] =>
                   /\ last'.res = "Ok"
                   /\ pc' = "idle"
                   /\ NewMsgs(h) = 1
                   /\ Newest(h).kind = MatchingKind(last'.op.name)

\* C29 (flag): setting imageSmoothingEnabled sets the flag of the handle to
\* the value given, changes nothing else and sends nothing.
C29_FlagStep ==
    (ScriptStart /\ last'.op.name = "setImageSmoothingEnabled") =>
        /\ image_smoothing_enabled' =
               [image_smoothing_enabled EXCEPT ![last'.h] = last'.op.args[1]]
        /\ transform' = transform
        /\ fill_color' = fill_color
        /\ stroke_color' = stroke_color
        /\ canvas_size' = canvas_size
        /\ NoMessage
        /\ sent' = sent
        /\ last'.res = "Ok"
        /\ pc' = "idle"

\* C29: see the two parts above.
C29_CommandOnlyOperations == [][C29_CommandStep /\ C29_FlagStep]_vars

\* bezierCurveTo has sent its command on a handle whose fill colour had been
\* set to red, and the colour is still red.
C29_Witness ==
    /\ last.op.name = "bezierCurveTo"
    /\ last.res = "Ok"
    /\ Len(sent[last.h]) = 2
    /\ sent[last.h][2].kind = "BezierCurveTo"
    /\ fill_color[last.h] = RGBA(1, 0, 0, 1)

\* The smoothing flag has been switched off, nothing having been sent.
C29_FlagOff ==
    /\ last.op.name = "setImageSmoothingEnabled"
    /\ image_smoothing_enabled[last.h] = FALSE
    /\ sent[last.h] = <<>>

============================================================================
